---------------------------- MODULE Spec2Model ----------------------------
(***************************************************************************)
(* Klondike Solitaire (src/solitaire.js): the game state, the move rules,   *)
(* the move execution, the selection logic and the win detection.          *)
(*                                                                         *)
(* A card is the record [suit, value] (its id `${value}-${suit}`); the     *)
(* mutable field card.faceUp of the card objects is the map faceUp.  Piles *)
(* are sequences of cards whose last element is the top, as the arrays of  *)
(* the source.  The deck is scaled: the first NumSuits suits instead of 4,  *)
(* NumValues ranks per suit instead of 13 (so the 52 of checkWin is the    *)
(* size of that deck) and NumCols tableau columns instead of 7.  The four  *)
(* foundations are kept; that of a suit left out of the deck stays empty.  *)
(***************************************************************************)
EXTENDS Integers, Sequences, FiniteSets, TLC

(* ------------------------------ bounds --------------------------------- *)
\* suits of the deck (4 in the source), the first NumSuits of SUITS
NumSuits == 3
\* ranks per suit (13 in the source): the Ace, NumValues - 2 ranks, the King
NumValues == 3
\* tableau columns (7 in the source)
NumCols == 3
\* win notifications counted in one game
MaxSignals == 2
\* win timers pending at one time
MaxPending == 1
\* inputs handled within the 100 ms between a setTimeout and its alert
MaxRace == 1
\* leading positions of the deck that the shuffle may permute: the loop of
\* shuffleDeck draws j = i at every index i >= MaxShuffled
MaxShuffled == 3

(* --------------------------- cards and deck ---------------------------- *)
SUITS == <<"hearts", "diamonds", "clubs", "spades">>

FullValues ==
  <<"A", "2", "3", "4", "5", "6", "7", "8", "9", "10", "J", "Q", "K">>

\* the rank order A < 2 < ... < K, cut to NumValues ranks, the King kept last
VALUES == SubSeq(FullValues, 1, NumValues - 1) \o <<"K">>

SUIT_SHORT ==
  [s \in {"hearts", "diamonds", "clubs", "spades"} |->
     CASE s = "hearts" -> "h" [] s = "diamonds" -> "d"
       [] s = "clubs" -> "c" [] s = "spades" -> "s"]

FoundationKeys == {"h", "d", "c", "s"}

createCard(suit, value) == [suit |-> suit, value |-> value]

color(card) ==
  IF card.suit = "hearts" \/ card.suit = "diamonds" THEN "red" ELSE "black"

createDeck ==
  [k \in 1..(NumSuits * Len(VALUES)) |->
     createCard(SUITS[((k - 1) \div Len(VALUES)) + 1],
                VALUES[((k - 1) % Len(VALUES)) + 1])]

Cards == {createDeck[k] : k \in 1..Len(createDeck)}

getValueIndex(value) ==
  (CHOOSE i \in 1..Len(VALUES) : VALUES[i] = value) - 1

getSuitShort(suit) == SUIT_SHORT[suit]

\* [shuffled[i], shuffled[j]] = [shuffled[j], shuffled[i]], 0-based i, j
Swap(arr, i, j) ==
  [arr EXCEPT ![i + 1] = arr[j + 1], ![j + 1] = arr[i + 1]]

\* the loop of shuffleDeck from index i down to 1; rnd[i] is the j drawn at i
RECURSIVE shuffleLoop(_, _, _)
shuffleLoop(shuffled, i, rnd) ==
  IF i > 0 THEN shuffleLoop(Swap(shuffled, i, rnd[i]), i - 1, rnd)
  ELSE shuffled

shuffleDeck(deck, rnd) == shuffleLoop(deck, Len(deck) - 1, rnd)

\* the values Math.floor(Math.random() * (i + 1)) may take over one shuffle:
\* rnd[i] \in 0..i, here with rnd[i] = i at every i >= MaxShuffled
RandomDraws ==
  LET n == Len(createDeck)
      Free == 1..(MaxShuffled - 1)
  IN { [i \in 1..(n - 1) |-> IF i \in Free THEN f[i] ELSE i] :
         f \in {g \in [Free -> 0..(MaxShuffled - 1)] :
                  \A i \in Free : g[i] <= i} }

(* ------------------------------- state --------------------------------- *)
VARIABLES
  stock,          \* array of cards, top last
  waste,          \* array of cards, top last
  foundations,    \* { h: [], d: [], c: [], s: [] }
  tableau,        \* the columns, indexed from 0
  faceUp,         \* card.faceUp of every card object of the current deck
  selectedCards,  \* null, or <<[cards, source]>>
  winSignals,     \* setTimeout calls of checkWin since the last initGame
  pendingAlerts,  \* win timers scheduled and not yet fired
  raced,          \* inputs handled since the oldest pending timer was set
  last            \* the last input handled and its outcome

vars ==
  <<stock, waste, foundations, tableau, faceUp, selectedCards, winSignals,
    pendingAlerts, raced, last>>

piles == <<stock, waste, foundations, tableau>>

\* what the handlers read and write
handled ==
  <<stock, waste, foundations, tableau, faceUp, selectedCards, winSignals,
    pendingAlerts, last>>

null == <<>>

Columns == 0..(NumCols - 1)

top(pile) == pile[Len(pile)]

pop(pile) == SubSeq(pile, 1, Len(pile) - 1)

\* pile.findIndex((c) => c.id === cardId), 0-based, -1 when absent
findIndex(pile, cardId) ==
  IF \E i \in 1..Len(pile) : pile[i] = cardId
  THEN (CHOOSE i \in 1..Len(pile) :
          pile[i] = cardId /\ \A j \in 1..(i - 1) : pile[j] # cardId) - 1
  ELSE -1

\* pile.slice(cardIndex), 0-based cardIndex
slice(pile, cardIndex) == SubSeq(pile, cardIndex + 1, Len(pile))

\* pile.splice(startIdx, count): the pile without those elements
splice(pile, startIdx, count) ==
  SubSeq(pile, 1, startIdx) \o SubSeq(pile, startIdx + count + 1, Len(pile))

\* mutant: the waste is handed back without being reversed
reverse_keep(arr) == arr

\* waste.reverse()
reverse(arr) == [i \in 1..Len(arr) |-> arr[Len(arr) + 1 - i]]

Range(arr) == {arr[i] : i \in 1..Len(arr)}

(* --------------------------- initialization ---------------------------- *)
\* index in the deck of the first card dealt to column col
DealStart(col) == (col * (col + 1)) \div 2

DealtToTableau == DealStart(NumCols)

dealTableau(deck) ==
  [col \in Columns |-> SubSeq(deck, DealStart(col) + 1, DealStart(col) + col + 1)]

\* mutant: card.faceUp = row === 0, the first card of a column is face-up
dealFaceUp_firstRow(deck) ==
  [c \in Cards |->
     \E col \in Columns : deck[DealStart(col) + 1] = c]

dealFaceUp(deck) ==
  [c \in Cards |->
     \E col \in Columns : deck[DealStart(col) + col + 1] = c]

dealStock(deck) == SubSeq(deck, DealtToTableau + 1, Len(deck))

\* the last input that a handler did not return from at once: its outcome,
\* and whether its checkWin scheduled the win timer
Event(outcome, win) == [outcome |-> outcome, win |-> win]

initGame(rnd) ==
  LET deck == shuffleDeck(createDeck, rnd)
  IN /\ stock' = dealStock(deck)
     /\ waste' = <<>>
     /\ foundations' = [k \in FoundationKeys |-> <<>>]
     /\ tableau' = dealTableau(deck)
     /\ faceUp' = dealFaceUp(deck)
     /\ selectedCards' = null
     /\ winSignals' = 0
     /\ UNCHANGED pendingAlerts
     /\ last' = Event("dealt", FALSE)

Init ==
  \E rnd \in RandomDraws :
    LET deck == shuffleDeck(createDeck, rnd)
    IN /\ stock = dealStock(deck)
       /\ waste = <<>>
       /\ foundations = [k \in FoundationKeys |-> <<>>]
       /\ tableau = dealTableau(deck)
       /\ faceUp = dealFaceUp(deck)
       /\ selectedCards = null
       /\ winSignals = 0
       /\ pendingAlerts = 0
       /\ raced = 0
       /\ last = Event("dealt", FALSE)

(* --------------------------- move validation --------------------------- *)
\* mutant: any higher rank of the suit is accepted on a non-empty foundation
canMoveToFoundation_anyHigher(card, foundationSuit) ==
  LET foundation == foundations[foundationSuit]
      suitShort == getSuitShort(card.suit)
  IN IF suitShort # foundationSuit THEN FALSE
     ELSE IF Len(foundation) = 0 THEN card.value = "A"
     ELSE getValueIndex(card.value) > getValueIndex(top(foundation).value)

canMoveToFoundation(card, foundationSuit) ==
  LET foundation == foundations[foundationSuit]
      suitShort == getSuitShort(card.suit)
  IN IF suitShort # foundationSuit THEN FALSE
     ELSE IF Len(foundation) = 0 THEN card.value = "A"
     ELSE getValueIndex(card.value) = getValueIndex(top(foundation).value) + 1

\* mutant: the color test is left out
canMoveToTableau_anyColor(cards, targetCol) ==
  LET targetPile == tableau[targetCol]
      movingCard == cards[1]
  IN IF Len(targetPile) = 0 THEN movingCard.value = "K"
     ELSE LET targetCard == top(targetPile)
          IN IF ~faceUp[targetCard] THEN FALSE
             ELSE getValueIndex(movingCard.value)
                    = getValueIndex(targetCard.value) - 1

\* mutant: any card may be placed on an empty column
canMoveToTableau_anyOnEmpty(cards, targetCol) ==
  LET targetPile == tableau[targetCol]
      movingCard == cards[1]
  IN IF Len(targetPile) = 0 THEN TRUE
     ELSE LET targetCard == top(targetPile)
          IN IF ~faceUp[targetCard] THEN FALSE
             ELSE IF color(movingCard) = color(targetCard) THEN FALSE
             ELSE getValueIndex(movingCard.value)
                    = getValueIndex(targetCard.value) - 1

canMoveToTableau(cards, targetCol) ==
  LET targetPile == tableau[targetCol]
      movingCard == cards[1]
  IN IF Len(targetPile) = 0 THEN movingCard.value = "K"
     ELSE LET targetCard == top(targetPile)
          IN IF ~faceUp[targetCard] THEN FALSE
             ELSE IF color(movingCard) = color(targetCard) THEN FALSE
             ELSE getValueIndex(movingCard.value)
                    = getValueIndex(targetCard.value) - 1


(* --------------------------- move execution ---------------------------- *)
\* mutant: deselect leaves the selection in place
deselect_keep == selectedCards

deselect == null

FoundationTotal(fnds) ==
  Len(fnds["h"]) + Len(fnds["d"]) + Len(fnds["c"]) + Len(fnds["s"])

\* the 52 of checkWin: the size of the deck
WinTotal == Len(createDeck)

\* mutant: the win test is off by one
checkWin_offByOne(fnds) == FoundationTotal(fnds) >= WinTotal - 1

\* whether checkWin calls setTimeout, given the foundations it reads
checkWin(fnds) == FoundationTotal(fnds) = WinTotal

\* mutant: the drawn card is pushed onto the waste without card.faceUp = true
drawFromStock_noFlip ==
  /\ selectedCards' = deselect
  /\ IF Len(stock) = 0
     THEN IF Len(waste) > 0
          THEN /\ stock' = reverse(waste)
               /\ faceUp' = [c \in Cards |-> IF c \in Range(waste) THEN FALSE
                                              ELSE faceUp[c]]
               /\ waste' = <<>>
               /\ last' = Event("recycled", FALSE)
          ELSE /\ UNCHANGED <<stock, waste, faceUp>>
               /\ last' = Event("empty", FALSE)
     ELSE /\ stock' = pop(stock)
          /\ UNCHANGED faceUp
          /\ waste' = Append(waste, top(stock))
          /\ last' = Event("drawn", FALSE)
  /\ UNCHANGED <<foundations, tableau, winSignals, pendingAlerts>>

\* mutant: deselect() is called in the recycle and draw branches only
drawFromStock_deselectOnDraw ==
  /\ IF Len(stock) = 0
     THEN IF Len(waste) > 0
          THEN /\ selectedCards' = deselect
               /\ stock' = reverse(waste)
               /\ faceUp' = [c \in Cards |-> IF c \in Range(waste) THEN FALSE
                                              ELSE faceUp[c]]
               /\ waste' = <<>>
               /\ last' = Event("recycled", FALSE)
          ELSE /\ UNCHANGED <<stock, waste, faceUp, selectedCards>>
               /\ last' = Event("empty", FALSE)
     ELSE /\ selectedCards' = deselect
          /\ stock' = pop(stock)
          /\ faceUp' = [faceUp EXCEPT ![top(stock)] = TRUE]
          /\ waste' = Append(waste, top(stock))
          /\ last' = Event("drawn", FALSE)
  /\ UNCHANGED <<foundations, tableau, winSignals, pendingAlerts>>

drawFromStock ==
  /\ selectedCards' = deselect
  /\ IF Len(stock) = 0
     THEN IF Len(waste) > 0
          THEN /\ stock' = reverse(waste)
               /\ faceUp' = [c \in Cards |-> IF c \in Range(waste) THEN FALSE
                                              ELSE faceUp[c]]
               /\ waste' = <<>>
               /\ last' = Event("recycled", FALSE)
          ELSE /\ UNCHANGED <<stock, waste, faceUp>>
               /\ last' = Event("empty", FALSE)
     ELSE /\ stock' = pop(stock)
          /\ faceUp' = [faceUp EXCEPT ![top(stock)] = TRUE]
          /\ waste' = Append(waste, top(stock))
          /\ last' = Event("drawn", FALSE)
  /\ UNCHANGED <<foundations, tableau, winSignals, pendingAlerts>>

\* mutant: a waste source is not popped
removeFromSource_keepWaste(cards, source) ==
  IF source.type = "tableau"
  THEN LET pile == tableau[source.index]
           startIdx == findIndex(pile, cards[1])
           rest == splice(pile, startIdx, Len(cards))
       IN [waste |-> waste,
           tableau |-> [tableau EXCEPT ![source.index] = rest],
           foundations |-> foundations,
           faceUp |-> IF Len(rest) > 0 /\ ~faceUp[top(rest)]
                      THEN [faceUp EXCEPT ![top(rest)] = TRUE]
                      ELSE faceUp]
  ELSE IF source.type = "foundation"
  THEN [waste |-> waste, tableau |-> tableau,
        foundations |-> [foundations EXCEPT ![source.index] = pop(@)],
        faceUp |-> faceUp]
  ELSE [waste |-> waste, tableau |-> tableau,
        foundations |-> foundations, faceUp |-> faceUp]

\* mutant: a foundation source is not popped
removeFromSource_keepFoundation(cards, source) ==
  IF source.type = "waste"
  THEN [waste |-> pop(waste), tableau |-> tableau,
        foundations |-> foundations, faceUp |-> faceUp]
  ELSE IF source.type = "tableau"
  THEN LET pile == tableau[source.index]
           startIdx == findIndex(pile, cards[1])
           rest == splice(pile, startIdx, Len(cards))
       IN [waste |-> waste,
           tableau |-> [tableau EXCEPT ![source.index] = rest],
           foundations |-> foundations,
           faceUp |-> IF Len(rest) > 0 /\ ~faceUp[top(rest)]
                      THEN [faceUp EXCEPT ![top(rest)] = TRUE]
                      ELSE faceUp]
  ELSE [waste |-> waste, tableau |-> tableau,
        foundations |-> foundations, faceUp |-> faceUp]

\* mutant: the card exposed on a tableau source is not flipped
removeFromSource_noFlip(cards, source) ==
  IF source.type = "waste"
  THEN [waste |-> pop(waste), tableau |-> tableau,
        foundations |-> foundations, faceUp |-> faceUp]
  ELSE IF source.type = "tableau"
  THEN LET pile == tableau[source.index]
           startIdx == findIndex(pile, cards[1])
           rest == splice(pile, startIdx, Len(cards))
       IN [waste |-> waste,
           tableau |-> [tableau EXCEPT ![source.index] = rest],
           foundations |-> foundations,
           faceUp |-> faceUp]
  ELSE IF source.type = "foundation"
  THEN [waste |-> waste, tableau |-> tableau,
        foundations |-> [foundations EXCEPT ![source.index] = pop(@)],
        faceUp |-> faceUp]
  ELSE [waste |-> waste, tableau |-> tableau,
        foundations |-> foundations, faceUp |-> faceUp]

\* mutant: every card left in the source column is turned face-up
removeFromSource_flipAll(cards, source) ==
  IF source.type = "waste"
  THEN [waste |-> pop(waste), tableau |-> tableau,
        foundations |-> foundations, faceUp |-> faceUp]
  ELSE IF source.type = "tableau"
  THEN LET pile == tableau[source.index]
           startIdx == findIndex(pile, cards[1])
           rest == splice(pile, startIdx, Len(cards))
       IN [waste |-> waste,
           tableau |-> [tableau EXCEPT ![source.index] = rest],
           foundations |-> foundations,
           faceUp |-> [c \in Cards |-> IF c \in Range(rest) THEN TRUE
                                        ELSE faceUp[c]]]
  ELSE IF source.type = "foundation"
  THEN [waste |-> waste, tableau |-> tableau,
        foundations |-> [foundations EXCEPT ![source.index] = pop(@)],
        faceUp |-> faceUp]
  ELSE [waste |-> waste, tableau |-> tableau,
        foundations |-> foundations, faceUp |-> faceUp]

\* the piles and flags after "Remove cards from source"
removeFromSource(cards, source) ==
  IF source.type = "waste"
  THEN [waste |-> pop(waste), tableau |-> tableau,
        foundations |-> foundations, faceUp |-> faceUp]
  ELSE IF source.type = "tableau"
  THEN LET pile == tableau[source.index]
           startIdx == findIndex(pile, cards[1])
           rest == splice(pile, startIdx, Len(cards))
       IN [waste |-> waste,
           tableau |-> [tableau EXCEPT ![source.index] = rest],
           foundations |-> foundations,
           faceUp |-> IF Len(rest) > 0 /\ ~faceUp[top(rest)]
                      THEN [faceUp EXCEPT ![top(rest)] = TRUE]
                      ELSE faceUp]
  ELSE IF source.type = "foundation"
  THEN [waste |-> waste, tableau |-> tableau,
        foundations |-> [foundations EXCEPT ![source.index] = pop(@)],
        faceUp |-> faceUp]
  ELSE [waste |-> waste, tableau |-> tableau,
        foundations |-> foundations, faceUp |-> faceUp]

\* the piles b after "Add cards to destination"
addToDestination(b, cards, destination) ==
  IF destination.type = "tableau"
  THEN [b EXCEPT !.tableau[destination.index] = @ \o cards]
  ELSE IF destination.type = "foundation"
  THEN [b EXCEPT !.foundations[destination.index] = @ \o cards]
  ELSE b

\* moveCards with its deselect and checkWin; a win timer is counted in
\* winSignals and pendingAlerts, both capped
moveCards(cards, source, destination) ==
  LET b == addToDestination(removeFromSource(cards, source), cards,
                            destination)
      won == checkWin(b.foundations)
  IN /\ won => (winSignals < MaxSignals /\ pendingAlerts < MaxPending)
     /\ waste' = b.waste
     /\ tableau' = b.tableau
     /\ foundations' = b.foundations
     /\ faceUp' = b.faceUp
     /\ selectedCards' = deselect
     /\ winSignals' = IF won THEN winSignals + 1 ELSE winSignals
     /\ pendingAlerts' = IF won THEN pendingAlerts + 1 ELSE pendingAlerts
     /\ UNCHANGED stock

\* mutant: the cards.length === 1 test of the foundation branch is dropped
attemptMoveResult_anyLength(destinationType, destinationIndex) ==
  LET cards == selectedCards[1].cards
  IN IF destinationType = "foundation"
     THEN canMoveToFoundation(cards[1], destinationIndex)
     ELSE IF destinationType = "tableau"
     THEN canMoveToTableau(cards, destinationIndex)
     ELSE FALSE

\* mutant: a destination that is neither foundation nor tableau is accepted
attemptMoveResult_anyOther(destinationType, destinationIndex) ==
  LET cards == selectedCards[1].cards
  IN IF destinationType = "foundation"
     THEN Len(cards) = 1 /\ canMoveToFoundation(cards[1], destinationIndex)
     ELSE IF destinationType = "tableau"
     THEN canMoveToTableau(cards, destinationIndex)
     ELSE TRUE

\* the value attemptMove returns when a selection is active
attemptMoveResult(destinationType, destinationIndex) ==
  LET cards == selectedCards[1].cards
  IN IF destinationType = "foundation"
     THEN Len(cards) = 1 /\ canMoveToFoundation(cards[1], destinationIndex)
     ELSE IF destinationType = "tableau"
     THEN canMoveToTableau(cards, destinationIndex)
     ELSE FALSE

\* mutant: the cards are taken off the source before the move is validated
attemptMove_removeFirst(destinationType, destinationIndex) ==
  LET cards == selectedCards[1].cards
      source == selectedCards[1].source
      b == removeFromSource(cards, source)
  IN IF attemptMoveResult(destinationType, destinationIndex)
     THEN moveCards(cards, source,
                    [type |-> destinationType, index |-> destinationIndex])
     ELSE /\ waste' = b.waste
          /\ tableau' = b.tableau
          /\ foundations' = b.foundations
          /\ faceUp' = b.faceUp
          /\ selectedCards' = deselect
          /\ UNCHANGED <<stock, winSignals, pendingAlerts>>

\* attemptMove with a selection active (every caller checks selectedCards)
attemptMove(destinationType, destinationIndex) ==
  LET cards == selectedCards[1].cards
      source == selectedCards[1].source
  IN IF attemptMoveResult(destinationType, destinationIndex)
     THEN moveCards(cards, source,
                    [type |-> destinationType, index |-> destinationIndex])
     ELSE /\ selectedCards' = deselect
          /\ UNCHANGED <<stock, waste, foundations, tableau, faceUp,
                         winSignals, pendingAlerts>>

\* the value autoMoveToFoundation returns
autoMoveResult(card) == canMoveToFoundation(card, getSuitShort(card.suit))

\* autoMoveToFoundation when it returns true
autoMoveToFoundation(card, source) ==
  moveCards(<<card>>, source,
            [type |-> "foundation", index |-> getSuitShort(card.suit)])

(* ----------------------------- selection ------------------------------- *)
\* mutant: only the clicked card is selected
selectCards_clickedOnly(cards, source) ==
  <<[cards |-> <<cards[1]>>, source |-> source]>>

selectCards(cards, source) == <<[cards |-> cards, source |-> source]>>

\* whether the move just executed scheduled the win timer
Signalled == winSignals' # winSignals

\* mutant: the fast path does not test cardsToMove.length === 1
handleCardClick_anyRun(cardId, sourceType, sourceIndex, detail) ==
  LET pile == IF sourceType = "waste" THEN waste
              ELSE IF sourceType = "tableau" THEN tableau[sourceIndex]
              ELSE foundations[sourceIndex]
      cardIndex == IF sourceType = "tableau" THEN findIndex(pile, cardId)
                   ELSE Len(pile) - 1
      card == pile[cardIndex + 1]
      source == [type |-> sourceType, index |-> sourceIndex]
      cardsToMove == IF sourceType = "tableau" THEN slice(pile, cardIndex)
                     ELSE <<card>>
  IN IF cardIndex < 0 \/ ~faceUp[card]
     THEN UNCHANGED handled
     ELSE IF /\ detail = 2
             /\ sourceType # "foundation"
             /\ autoMoveResult(card)
     THEN /\ autoMoveToFoundation(card, source)
          /\ last' = Event("automoved", Signalled)
     ELSE IF selectedCards = null
     THEN /\ selectedCards' = selectCards(cardsToMove, source)
          /\ UNCHANGED <<stock, waste, foundations, tableau, faceUp,
                         winSignals, pendingAlerts>>
          /\ last' = Event("selected", FALSE)
     ELSE IF sourceType = "tableau" \/ sourceType = "foundation"
     THEN /\ attemptMove(sourceType, sourceIndex)
          /\ last' = Event(IF attemptMoveResult(sourceType, sourceIndex)
                           THEN "moved" ELSE "rejected", Signalled)
     ELSE /\ selectedCards' = deselect
          /\ UNCHANGED <<stock, waste, foundations, tableau, faceUp,
                         winSignals, pendingAlerts>>
          /\ last' = Event("deselected", FALSE)

handleCardClick(cardId, sourceType, sourceIndex, detail) ==
  LET pile == IF sourceType = "waste" THEN waste
              ELSE IF sourceType = "tableau" THEN tableau[sourceIndex]
              ELSE foundations[sourceIndex]
      cardIndex == IF sourceType = "tableau" THEN findIndex(pile, cardId)
                   ELSE Len(pile) - 1
      card == pile[cardIndex + 1]
      source == [type |-> sourceType, index |-> sourceIndex]
      cardsToMove == IF sourceType = "tableau" THEN slice(pile, cardIndex)
                     ELSE <<card>>
  IN IF cardIndex < 0 \/ ~faceUp[card]
     THEN UNCHANGED handled
     ELSE IF /\ detail = 2
             /\ sourceType # "foundation"
             /\ Len(cardsToMove) = 1
             /\ autoMoveResult(card)
     THEN /\ autoMoveToFoundation(card, source)
          /\ last' = Event("automoved", Signalled)
     ELSE IF selectedCards = null
     THEN /\ selectedCards' = selectCards(cardsToMove, source)
          /\ UNCHANGED <<stock, waste, foundations, tableau, faceUp,
                         winSignals, pendingAlerts>>
          /\ last' = Event("selected", FALSE)
     ELSE IF sourceType = "tableau" \/ sourceType = "foundation"
     THEN /\ attemptMove(sourceType, sourceIndex)
          /\ last' = Event(IF attemptMoveResult(sourceType, sourceIndex)
                           THEN "moved" ELSE "rejected", Signalled)
     ELSE /\ selectedCards' = deselect
          /\ UNCHANGED <<stock, waste, foundations, tableau, faceUp,
                         winSignals, pendingAlerts>>
          /\ last' = Event("deselected", FALSE)

handleEmptySlotClick(slotType, slotIndex) ==
  IF selectedCards # null
  THEN /\ attemptMove(slotType, slotIndex)
       /\ last' = Event(IF attemptMoveResult(slotType, slotIndex)
                        THEN "moved" ELSE "rejected", Signalled)
  ELSE UNCHANGED handled

(* ------------------------------- inputs -------------------------------- *)
\* event.detail of a click: 1 a single pick, 2 the second of a double pick
PickKinds == {1, 2}

\* an input is handled to completion; while a win timer is pending at most
\* MaxRace inputs arrive before it fires
Input(handler) ==
  /\ pendingAlerts > 0 => raced < MaxRace
  /\ handler
  /\ raced' = IF pendingAlerts > 0 /\ pendingAlerts' > 0 THEN raced + 1 ELSE 0

\* a click on the waste card: render passes the id of the waste's top card
WasteCardClick ==
  \E detail \in PickKinds :
    /\ Len(waste) > 0
    /\ Input(handleCardClick(top(waste), "waste", 0, detail))

FoundationCardClick ==
  \E k \in FoundationKeys, detail \in PickKinds :
    /\ Len(foundations[k]) > 0
    /\ Input(handleCardClick(top(foundations[k]), "foundation", k, detail))

\* a click on a card of a column (render gives the handler to the face-up
\* cards; a face-down one is the early return of handleCardClick)
TableauCardClick ==
  \E col \in Columns, cardId \in Cards, detail \in PickKinds :
    /\ cardId \in Range(tableau[col])
    /\ Input(handleCardClick(cardId, "tableau", col, detail))

\* wasteEl.onclick, installed by a render with the waste empty
WasteSlotClick == Input(handleEmptySlotClick("waste", 0))

\* fEl.onclick, installed by the first render (the foundations start empty)
FoundationSlotClick ==
  \E k \in FoundationKeys : Input(handleEmptySlotClick("foundation", k))

\* the empty-column element exists only while the column is empty
TableauSlotClick ==
  \E col \in Columns :
    /\ Len(tableau[col]) = 0
    /\ Input(handleEmptySlotClick("tableau", col))

\* stockEl.onclick
StockClick == Input(drawFromStock)

\* the Escape key, or a click outside every card, slot and column
Deselect ==
  Input(/\ selectedCards' = deselect
        /\ UNCHANGED <<stock, waste, foundations, tableau, faceUp,
                       winSignals, pendingAlerts>>
        /\ last' = Event("deselected", FALSE))

\* the N key, confirmed
NewGame == \E rnd \in RandomDraws : Input(initGame(rnd))

\* the timer of checkWin fires: alert(...)
WinAlert ==
  /\ pendingAlerts > 0
  /\ pendingAlerts' = pendingAlerts - 1
  /\ raced' = 0
  /\ UNCHANGED <<stock, waste, foundations, tableau, faceUp, selectedCards,
                 winSignals, last>>

Next ==
  \/ WasteCardClick
  \/ FoundationCardClick
  \/ TableauCardClick
  \/ WasteSlotClick
  \/ FoundationSlotClick
  \/ TableauSlotClick
  \/ StockClick
  \/ Deselect
  \/ NewGame
  \/ WinAlert

Spec == Init /\ [][Next]_vars

(* ------------------------------ properties ----------------------------- *)
TypeOK ==
  /\ Range(stock) \subseteq Cards
  /\ Range(waste) \subseteq Cards
  /\ winSignals \in 0..MaxSignals
  /\ pendingAlerts \in 0..MaxPending
  /\ raced \in 0..MaxRace

\* every pile of the board, one after the other
AllPiles ==
  <<stock, waste>> \o [i \in 1..4 |-> foundations[getSuitShort(SUITS[i])]]
    \o [i \in 1..NumCols |-> tableau[i - 1]]

\* how many times card c occurs in pile
Occurrences(pile, c) == Cardinality({i \in 1..Len(pile) : pile[i] = c})

RECURSIVE SumOver(_, _, _)
SumOver(ps, c, n) ==
  IF n = 0 THEN 0 ELSE Occurrences(ps[n], c) + SumOver(ps, c, n - 1)

\* C1: every card of the deck is in exactly one of stock, waste, the four
\* foundations and the tableau columns, exactly once, in every reachable
\* state.
C1_Conservation ==
  \A c \in Cards : SumOver(AllPiles, c, Len(AllPiles)) = 1

\* a move has been made with cards on a foundation, in the waste and in the
\* stock
C1_Witness ==
  /\ last.outcome = "moved"
  /\ FoundationTotal(foundations) > 0
  /\ Len(waste) > 0
  /\ Len(stock) > 0

\* C2 (as claimed): checkWin schedules the win notification at most once
\* between one initGame and the next.
C2_AtMostOneSignal == winSignals <= 1

\* the board is won: the foundations hold the whole deck
Won == FoundationTotal(foundations) = WinTotal

\* a step that moves the King on top of a foundation, the selection, onto an
\* empty tableau column and changes no other pile
KingToEmptyColumn ==
  \E k \in FoundationKeys, col \in Columns :
    /\ selectedCards # null
    /\ Len(foundations[k]) > 0
    /\ selectedCards[1].cards = <<top(foundations[k])>>
    /\ top(foundations[k]).value = "K"
    /\ tableau[col] = <<>>
    /\ tableau' = [tableau EXCEPT ![col] = <<top(foundations[k])>>]
    /\ foundations' = [foundations EXCEPT ![k] = pop(@)]
    /\ stock' = stock
    /\ waste' = waste

\* C3 (as claimed): on a won board no pick, empty-slot pick or stock draw
\* changes the contents of any pile.
C3_WonBoardFrozen ==
  [][(Won /\ last'.outcome # "dealt") => piles' = piles]_vars

\* C3 (amended): on a won board no stock draw and no pick changes the
\* contents of any pile, except the move of a selected foundation King onto
\* an empty tableau column.
C3_WonBoardKingOnly ==
  [][(Won /\ last'.outcome # "dealt")
       => (piles' = piles \/ KingToEmptyColumn)]_vars

\* a King has been moved off a won board
C3_Witness ==
  /\ winSignals >= 1
  /\ FoundationTotal(foundations) = WinTotal - 1
  /\ last.outcome = "moved"

\* C4: a win is signalled by exactly the successful moves that leave the
\* foundations holding the whole deck, in that same step, and by no other
\* operation.
C4_WinDetection ==
  last.win <=> (/\ last.outcome \in {"moved", "automoved"}
                /\ FoundationTotal(foundations) = WinTotal)

\* a move has just signalled the win
C4_Witness == last.win /\ pendingAlerts > 0

\* C5: after every attemptMove, successful or rejected, and after every
\* drawFromStock (draw, recycle or no-op) the selection is absent.
C5_SelectionCleared ==
  last.outcome \in {"moved", "rejected", "drawn", "recycled", "empty"}
    => selectedCards = null

\* the waste has just been recycled into the stock
C5_Witness == last.outcome = "recycled" /\ Len(stock) > 1

\* C6: a rejected attemptMove leaves every pile and every faceUp flag as it
\* was and only clears the selection.
C6_RejectedChangesNothing ==
  [][last'.outcome = "rejected"
       => (piles' = piles /\ faceUp' = faceUp /\ selectedCards' = null)]_vars

\* a move has just been rejected, with cards on the tableau and a foundation
C6_Witness ==
  /\ last.outcome = "rejected"
  /\ FoundationTotal(foundations) > 0
  /\ Len(waste) > 0

\* the pile a selection was taken from
SourcePile(source) ==
  IF source.type = "waste" THEN waste
  ELSE IF source.type = "tableau" THEN tableau[source.index]
  ELSE foundations[source.index]

\* C7: a selection, when present, is a non-empty suffix of its source pile
\* ending at the pile's top, its first card is face-up, and from the waste
\* or a foundation it is the single top card.
C7_SelectionValid ==
  selectedCards # null =>
    LET cards == selectedCards[1].cards
        source == selectedCards[1].source
        pile == SourcePile(source)
    IN /\ Len(cards) > 0
       /\ Len(cards) <= Len(pile)
       /\ cards = SubSeq(pile, Len(pile) - Len(cards) + 1, Len(pile))
       /\ faceUp[cards[1]]
       /\ source.type \in {"waste", "foundation"} => Len(cards) = 1

\* a run of two or more cards is selected in a column
C7_Witness ==
  /\ selectedCards # null
  /\ selectedCards[1].source.type = "tableau"
  /\ Len(selectedCards[1].cards) >= 2

\* C8: every foundation holds only cards of its own suit, all face-up, its
\* k-th card from the bottom having rank k (Ace first, no gap).
C8_FoundationOrdered ==
  \A k \in FoundationKeys :
    \A i \in 1..Len(foundations[k]) :
      /\ getSuitShort(foundations[k][i].suit) = k
      /\ faceUp[foundations[k][i]]
      /\ getValueIndex(foundations[k][i].value) = i - 1

\* a foundation holds its whole suit while the hearts foundation is empty
C8_Witness ==
  /\ Len(foundations["h"]) = 0
  /\ \E k \in FoundationKeys : Len(foundations[k]) = Len(VALUES)

\* C9: in every column no face-down card lies above a face-up card, and the
\* top card of every non-empty column is face-up.
C9_FaceUpContiguous ==
  \A col \in Columns :
    LET pile == tableau[col]
    IN /\ \A i \in 1..Len(pile) : \A j \in i..Len(pile) :
            faceUp[pile[i]] => faceUp[pile[j]]
       /\ Len(pile) > 0 => faceUp[top(pile)]

\* the top card of column 2 has been moved away and the card under it
\* flipped, and another column holds two face-up cards on a face-down one
C9_Witness ==
  /\ Len(tableau[2]) = 2
  /\ ~faceUp[tableau[2][1]]
  /\ faceUp[tableau[2][2]]
  /\ \E col \in Columns :
       /\ Len(tableau[col]) >= 3
       /\ ~faceUp[tableau[col][1]]
       /\ faceUp[tableau[col][2]]

\* C10: within the face-up run of every column adjacent cards alternate in
\* color and each card is exactly one rank below the card under it.
C10_RunConsistent ==
  \A col \in Columns :
    LET pile == tableau[col]
    IN \A i \in 1..(Len(pile) - 1) :
         (faceUp[pile[i]] /\ faceUp[pile[i + 1]]) =>
           /\ color(pile[i]) # color(pile[i + 1])
           /\ getValueIndex(pile[i + 1].value)
                = getValueIndex(pile[i].value) - 1

\* a column holds a face-up run of three cards on top of a face-down card
C10_Witness ==
  \E col \in Columns :
    LET pile == tableau[col]
    IN /\ Len(pile) >= 4
       /\ ~faceUp[pile[Len(pile) - 3]]
       /\ faceUp[pile[Len(pile) - 2]]

\* the cards of a stock in the order successive draws take them (stock.pop())
RECURSIVE DrawOrder(_)
DrawOrder(pile) ==
  IF Len(pile) = 0 THEN <<>> ELSE <<top(pile)>> \o DrawOrder(pop(pile))

\* C11: a draw puts the stock's top card on top of the waste, so the waste
\* lists its cards in the order they were drawn; a recycle of that waste
\* yields a stock whose draw order is exactly that order, an empty waste and
\* every recycled card face-down.
C11_RecycleRoundTrip ==
  [][/\ last'.outcome = "drawn" /\ stock' # stock
          => waste' = Append(waste, top(stock))
     /\ (Len(stock) = 0 /\ Len(stock') > 0 /\ last'.outcome = "recycled")
          => /\ DrawOrder(stock') = waste
             /\ waste' = <<>>
             /\ \A c \in Range(waste) : ~faceUp'[c]]_vars

\* the whole dealt stock was drawn into the waste and recycled
C11_Witness ==
  /\ last.outcome = "recycled"
  /\ Len(stock) = Len(createDeck) - DealtToTableau
  /\ Len(waste) = 0
  /\ \A c \in Range(stock) : ~faceUp[c]

\* the face-down cards that a step leaves on top of a column it shortened
Exposed ==
  {c \in Cards :
     \E col \in Columns :
       /\ Len(tableau'[col]) < Len(tableau[col])
       /\ Len(tableau'[col]) > 0
       /\ c = top(tableau'[col])
       /\ ~faceUp[c]}

\* C12: a successful move that takes a run off a tableau column and leaves a
\* face-down card on top turns that card face-up, and a move changes the
\* faceUp flag of no other card in any pile.
C12_AutoFlip ==
  [][(last'.outcome \in {"moved", "automoved"} /\ piles' # piles)
       => /\ \A c \in Exposed : faceUp'[c]
          /\ {c \in Cards : faceUp'[c] # faceUp[c]} = Exposed]_vars

\* the first move of a game took the top card of a dealt column to its
\* foundation and the card under it, dealt face-down, is face-up
C12_Witness ==
  /\ last.outcome = "automoved"
  /\ FoundationTotal(foundations) = 1
  /\ Len(waste) = 0
  /\ Len(stock) = Len(createDeck) - DealtToTableau
  /\ \E col \in Columns :
       /\ col >= 1
       /\ Len(tableau[col]) = col
       /\ faceUp[top(tableau[col])]
       /\ \A i \in 1..(col - 1) : ~faceUp[tableau[col][i]]

\* C13: after initGame, from any reachable state and for any shuffle, column
\* i holds exactly i + 1 cards of which only the last is face-up, the stock
\* holds every card not dealt to the tableau (24 of 52 in the full game), all
\* face-down, the waste and the foundations are empty and nothing is selected.
C13_DealCorrect ==
  last.outcome = "dealt" =>
    /\ \A col \in Columns :
         /\ Len(tableau[col]) = col + 1
         /\ \A i \in 1..(col + 1) : faceUp[tableau[col][i]] <=> (i = col + 1)
    /\ Len(stock) = Len(createDeck) - (NumCols * (NumCols + 1)) \div 2
    /\ \A c \in Range(stock) : ~faceUp[c]
    /\ Len(waste) = 0
    /\ \A k \in FoundationKeys : Len(foundations[k]) = 0
    /\ selectedCards = null

\* a new game was dealt over a won board whose win timer has not fired yet
C13_Witness ==
  /\ last.outcome = "dealt"
  /\ pendingAlerts > 0
  /\ Len(tableau[NumCols - 1]) = NumCols

\* C14 as stated: only the top card of the waste is face-up, every waste
\* card below the top has faceUp = false.
C14_OnlyTopFaceUp ==
  \A i \in 1..(Len(waste) - 1) : ~faceUp[waste[i]]

\* C14, amended: every card of the waste is face-up, and only the top card
\* of the waste is selectable: a selection taken from the waste holds exactly
\* the waste's top card.
C14_WasteFaceUpTopSelectable ==
  /\ \A i \in 1..Len(waste) : faceUp[waste[i]]
  /\ (selectedCards # null /\ selectedCards[1].source.type = "waste")
       => (Len(waste) > 0 /\ selectedCards[1].cards = <<top(waste)>>)

\* the waste holds two or more cards and its top card is selected
C14_Witness ==
  /\ Len(waste) >= 2
  /\ selectedCards # null
  /\ selectedCards[1].source.type = "waste"

\* C15: drawFromStock with the stock and the waste both empty leaves every
\* pile and every faceUp flag unchanged and only clears the selection.
C15_EmptyDrawNoOp ==
  [][(Len(stock) = 0 /\ Len(waste) = 0 /\ drawFromStock)
       => /\ piles' = piles
          /\ faceUp' = faceUp
          /\ selectedCards' = null
          /\ last'.outcome = "empty"]_vars

\* a stock click found the stock and the waste empty while cards were still
\* on the tableau
C15_Witness ==
  /\ last.outcome = "empty"
  /\ Len(stock) = 0
  /\ Len(waste) = 0
  /\ selectedCards = null
  /\ \E col \in Columns : Len(tableau[col]) > 0

\* the rank of a card, 1 for the Ace
Rank(card) == CHOOSE i \in 1..Len(VALUES) : VALUES[i] = card.value

\* the rule for a move of the run cards onto foundation k
LegalOnFoundation(cards, k) ==
  /\ Len(cards) = 1
  /\ SUIT_SHORT[cards[1].suit] = k
  /\ IF Len(foundations[k]) = 0
     THEN cards[1].value = "A"
     ELSE Rank(cards[1]) = Rank(top(foundations[k])) + 1

\* C16: with a selection active, attemptMove to foundation k moves the
\* selection onto foundation k if and only if the selection is exactly one
\* card, of the suit of k, an Ace when k is empty and one rank above the top
\* of k otherwise; a selection of several cards is never moved to a
\* foundation.
C16_FoundationMoveLegality ==
  [][\A k \in FoundationKeys :
       (selectedCards # null /\ attemptMove("foundation", k))
         => LET cards == selectedCards[1].cards
            IN IF LegalOnFoundation(cards, k)
               THEN /\ foundations'[k] = Append(foundations[k], cards[1])
                    /\ \A j \in FoundationKeys \ {k} :
                         foundations'[j] = foundations[j]
                    /\ cards[1] \notin Range(waste')
                    /\ \A col \in Columns : cards[1] \notin Range(tableau'[col])
                    /\ selectedCards' = null
               ELSE /\ piles' = piles
                    /\ faceUp' = faceUp
                    /\ selectedCards' = null]_vars

\* the selected King was moved onto its foundation and completed the game
C16_Witness ==
  /\ last.outcome = "moved"
  /\ last.win
  /\ winSignals = 1
  /\ \A k \in FoundationKeys :
       Len(foundations[k]) > 0 => top(foundations[k]).value = "K"

Red(card) == card.suit \in {"hearts", "diamonds"}

\* the rule for a move of the run cards onto column col
LegalOnTableau(cards, col) ==
  IF Len(tableau[col]) = 0
  THEN cards[1].value = "K"
  ELSE /\ faceUp[top(tableau[col])]
       /\ Red(cards[1]) # Red(top(tableau[col]))
       /\ Rank(cards[1]) = Rank(top(tableau[col])) - 1

\* the runs a player can pick: a single card, or a column from one of its
\* cards to its top
Runs ==
  {<<c>> : c \in Cards}
    \cup UNION {{slice(tableau[col], i) : i \in 0..(Len(tableau[col]) - 1)} :
                  col \in Columns}

\* C17: canMoveToTableau(cards, col) is true if and only if the column is
\* empty and cards[0] is a King, or the column is non-empty, its top card is
\* face-up, of the other color than cards[0] and one rank above it; a legal
\* attemptMove appends the whole run to the column in the same order, and an
\* illegal one changes no pile.
C17_TableauMoveLegality ==
  [][/\ \A cards \in Runs, col \in Columns :
          canMoveToTableau(cards, col) <=> LegalOnTableau(cards, col)
     /\ \A col \in Columns :
          (selectedCards # null /\ attemptMove("tableau", col))
            => LET cards == selectedCards[1].cards
               IN IF LegalOnTableau(cards, col)
                  THEN /\ tableau'[col] = tableau[col] \o cards
                       /\ \A other \in Columns \ {col} :
                            Range(tableau'[other]) \cap Range(cards) = {}
                       /\ Range(waste') \cap Range(cards) = {}
                       /\ \A k \in FoundationKeys :
                            Range(foundations'[k]) \cap Range(cards) = {}
                       /\ selectedCards' = null
                  ELSE /\ piles' = piles
                       /\ faceUp' = faceUp
                       /\ selectedCards' = null]_vars

\* a King lies face-up at the bottom of a column with cards moved onto it,
\* next to an empty column
C17_Witness ==
  /\ last.outcome = "moved"
  /\ \E col \in Columns : Len(tableau[col]) = 0
  /\ \E col \in Columns :
       /\ Len(tableau[col]) >= 3
       /\ tableau[col][1].value = "K"
       /\ faceUp[tableau[col][1]]

\* C18: the waste is never a move destination: a card is added to the waste
\* only by drawFromStock taking the stock's top card, and a single pick on
\* the waste card, or a pick on the empty waste slot, while a selection is
\* active only clears the selection and leaves every pile unchanged.
C18_WasteNeverDestination ==
  [][/\ (Len(waste') > Len(waste) \/ ~(Range(waste') \subseteq Range(waste)))
          => /\ Len(stock) > 0
             /\ waste' = Append(waste, top(stock))
             /\ stock' = pop(stock)
             /\ last'.outcome = "drawn"
     /\ (/\ selectedCards # null
         /\ \/ handleEmptySlotClick("waste", 0)
            \/ Len(waste) > 0 /\ handleCardClick(top(waste), "waste", 0, 1))
          => /\ piles' = piles
             /\ faceUp' = faceUp
             /\ selectedCards' = null]_vars

\* a selection was cleared with several cards in the waste and a card on a
\* foundation
C18_Witness ==
  /\ last.outcome = "deselected"
  /\ selectedCards = null
  /\ Len(waste) >= 2
  /\ FoundationTotal(foundations) > 0

\* the fast path applies to a double pick of card on top of pile
FastPath(card, pile) ==
  /\ faceUp[card]
  /\ card = top(pile)
  /\ LegalOnFoundation(<<card>>, SUIT_SHORT[card.suit])

\* the card lands on the foundation of its suit, which grows by one, no
\* other foundation and not the stock changes, and the selection is absent
AutoMoved(card) ==
  LET k == SUIT_SHORT[card.suit]
  IN /\ foundations'[k] = Append(foundations[k], card)
     /\ Len(foundations'[k]) = Len(foundations[k]) + 1
     /\ \A j \in FoundationKeys \ {k} : foundations'[j] = foundations[j]
     /\ stock' = stock
     /\ selectedCards' = null

\* C19: a double pick on a face-up card auto-moves only when the source is
\* the waste or a column, the run from the picked card to the top of its pile
\* is that one card, and the card is legal on the foundation of its suit;
\* then exactly that card leaves the top of its source for that foundation
\* and the selection is absent. In every other case, a foundation source
\* included, the double pick is handled exactly as a single pick.
C19_DoublePickFastPath ==
  [][/\ (Len(waste) > 0 /\ handleCardClick(top(waste), "waste", 0, 2))
          => IF FastPath(top(waste), waste)
             THEN /\ AutoMoved(top(waste))
                  /\ waste' = pop(waste)
                  /\ tableau' = tableau
             ELSE handleCardClick(top(waste), "waste", 0, 1)
     /\ \A col \in Columns, cardId \in Cards :
          (cardId \in Range(tableau[col])
             /\ handleCardClick(cardId, "tableau", col, 2))
            => IF FastPath(cardId, tableau[col])
               THEN /\ AutoMoved(cardId)
                    /\ tableau' = [tableau EXCEPT ![col] = pop(@)]
                    /\ waste' = waste
               ELSE handleCardClick(cardId, "tableau", col, 1)
     /\ \A k \in FoundationKeys :
          (Len(foundations[k]) > 0
             /\ handleCardClick(top(foundations[k]), "foundation", k, 2))
            => handleCardClick(top(foundations[k]), "foundation", k, 1)]_vars

\* a double pick has sent a card onto a foundation that already held one,
\* with cards in the waste
C19_Witness ==
  /\ last.outcome = "automoved"
  /\ selectedCards = null
  /\ Len(waste) > 0
  /\ \E k \in FoundationKeys : Len(foundations[k]) >= 2

\* C20 (as claimed): whenever the timer scheduled by checkWin fires, the
\* foundations of the current game still hold the whole deck: no input
\* handled between the winning move and the alert has changed the board.
C20_AlertOnWonBoard ==
  [][pendingAlerts' < pendingAlerts => Won]_vars

=============================================================================
